---- MODULE Spec2Model ----
(***************************************************************************)
(* Lumina: the React component App (src/App.tsx) and the service wrapper   *)
(* GeminiService (src/unnamed/part_000).                                   *)
(*                                                                         *)
(* JavaScript values are modelled as follows.                              *)
(*   - null / undefined is Null, a present value v is Some(v);             *)
(*   - an object is a record, and an optional property is a field that is  *)
(*     in the record's DOMAIN or not (so a?.b is a DOMAIN test);           *)
(*   - a composite string (a data URL, an error message) is a sequence of  *)
(*     tokens, "," being the token of the comma, so that split(','),       *)
(*     includes(...) and template literals are computed, not assumed.      *)
(* Every await is a point where other handlers may run: a run of a handler *)
(* sits at the promise it awaits (pc); an action After...(run, res) is the *)
(* promise settling to res, one of Outcomes(run), together with the        *)
(* handler's continuation up to its next await (nothing runs in between).  *)
(***************************************************************************)
EXTENDS Naturals, Sequences, FiniteSets, Bags, TLC

\* ---------------------------------------------------------------- bounds
MaxRuns == 2      \* handler invocations that pass validation
MaxPolls == 2     \* times the video service answers "not done" to one run
MaxParts == 2     \* parts of a candidate of a generateContent response

\* ------------------------------------------------------------- constants
PollIntervalMs == 10000

\* ---------------------------------------------------------- JS encodings
Null == <<>>
Some(v) == <<v>>

Ok(v) == [ok |-> TRUE, value |-> v]
Throw(e) == [ok |-> FALSE, value |-> e]
Error(m) == [message |-> m]

RECURSIVE split(_, _)
split(s, sep) ==
  IF \A i \in 1..Len(s) : s[i] # sep
  THEN <<s>>
  ELSE LET i == CHOOSE k \in 1..Len(s) :
                  s[k] = sep /\ \A j \in 1..(k - 1) : s[j] # sep
       IN  <<SubSeq(s, 1, i - 1)>> \o split(SubSeq(s, i + 1, Len(s)), sep)

\* a[i] of a JS array (zero-based), undefined past its end
At(a, i) == IF i + 1 <= Len(a) THEN Some(a[i + 1]) ELSE Null

\* s.includes(needle), on tokens
includes(m, needle) == \E i \in 1..Len(m) : m[i] = needle

\* ------------------------------------------------------------------ types
ToolType == {"GENERATE", "EDIT", "ANIMATE", "HISTORY"}
ImageSize == {"1K", "2K", "4K"}
AspectRatio == {"1:1", "3:4", "4:3", "9:16", "16:9"}

\* ------------------------------------------------------ environment values
Prompts == {"", "p"}
\* FileReader.readAsDataURL results
Images == {<<"data:image/png;base64", ",", "iVBOR">>}
ImageData == {"d1", "d2"}
Blobs == {"mp4"}
Uris == {<<"https://video/1?alt=media">>}

TextPart == [text |-> "caption"]
InlinePart(d) == [inlineData |-> [data |-> d, mimeType |-> "image/png"]]
PartValues == {TextPart} \cup {InlinePart(d) : d \in ImageData}
PartSeqs == UNION {[1..n -> PartValues] : n \in 0..MaxParts}
Candidates ==
  {[finishReason |-> "SAFETY"], [content |-> [role |-> "model"]]}
    \cup {[content |-> [role |-> "model", parts |-> ps]] : ps \in PartSeqs}
Decoy == [content |-> [role |-> "model", parts |-> <<InlinePart("d2")>>]]
Responses ==
  {[promptFeedback |-> "BLOCKED"], [candidates |-> <<>>]}
    \cup {[candidates |-> <<c>>] : c \in Candidates}
    \cup {[candidates |-> <<c, Decoy>>] : c \in Candidates}

NotFound == "Requested entity was not found"
\* what the SDK, fetch or blob() can throw: a message that holds NotFound, an
\* empty message, and a thrown value that has no message at all
SdkErrors == { Error(<<"404 ", NotFound, ".">>), Error(<<>>), [status |-> 500] }

NotDoneOperations == {[name |-> "op"], [name |-> "op", done |-> FALSE]}
OperationsWithoutUri ==
  { [name |-> "op", done |-> TRUE],
    [name |-> "op", done |-> TRUE, response |-> [generatedVideos |-> <<>>]],
    [name |-> "op", done |-> TRUE,
     response |-> [generatedVideos |-> <<[video |-> [mimeType |-> "video/mp4"]]>>]] }
OperationsWithUri ==
  { [name |-> "op", done |-> TRUE,
     response |-> [generatedVideos |-> <<[video |-> [uri |-> u]]>>]] : u \in Uris }
DoneOperations == OperationsWithoutUri \cup OperationsWithUri
Operations == NotDoneOperations \cup DoneOperations

\* ------------------------------------------------- GeminiService, pure parts
\* a resolution test that forgets 2K
isHighRes_Only4K(sz) == sz = "4K"

isHighRes(sz) == sz = "2K" \/ sz = "4K"

model(sz) == IF isHighRes(sz) THEN "gemini-3-pro-image-preview" ELSE "gemini-2.5-flash-image"

imageConfig(sz, ar) ==
  IF isHighRes(sz) THEN [aspectRatio |-> ar, imageSize |-> sz] ELSE [aspectRatio |-> ar]

generateImageRequest(p, sz, ar) ==
  [ model |-> model(sz),
    contents |-> [parts |-> <<[text |-> p]>>],
    config |-> [imageConfig |-> imageConfig(sz, ar)] ]

editImageRequest(base, color, p) ==
  [ model |-> "gemini-2.5-flash-image",
    contents |-> [parts |->
      << [inlineData |-> [data |-> At(split(base, ","), 1), mimeType |-> "image/png"]],
         [inlineData |-> [data |-> At(split(color, ","), 1), mimeType |-> "image/png"]],
         [text |-> <<"Combine these two images. ... Details: ", p>>] >>] ]

\* the aspect ratio handed to Veo unvalidated
validAspectRatio_Verbatim(ar) == ar

validAspectRatio(ar) == IF ar = "9:16" THEN "9:16" ELSE "16:9"

generateVideosRequest(img, p, ar) ==
  [ model |-> "veo-3.1-fast-generate-preview",
    prompt |-> IF p = "" THEN "Cinematic animation of this scene" ELSE p,
    image |-> [imageBytes |-> At(split(img, ","), 1), mimeType |-> "image/png"],
    config |-> [numberOfVideos |-> 1, resolution |-> "1080p",
                aspectRatio |-> validAspectRatio(ar)] ]

\* response.candidates?.[0]?.content?.parts || []
responseParts(response) ==
  IF "candidates" \notin DOMAIN response THEN <<>>
  ELSE IF Len(response.candidates) = 0 THEN <<>>
  ELSE LET c == response.candidates[1]
       IN  IF "content" \notin DOMAIN c THEN <<>>
           ELSE IF "parts" \notin DOMAIN c.content THEN <<>>
           ELSE c.content.parts

\* the loop without its early return: the last part with inline data wins
RECURSIVE lastInlineData(_)
lastInlineData(parts) ==
  IF parts = <<>> THEN Null
  ELSE LET rest == lastInlineData(Tail(parts))
       IN  IF rest # Null THEN rest
           ELSE IF "inlineData" \in DOMAIN Head(parts) THEN Some(Head(parts))
           ELSE Null

RECURSIVE firstInlineData(_)
firstInlineData(parts) ==
  IF parts = <<>> THEN Null
  ELSE IF "inlineData" \in DOMAIN Head(parts) THEN Some(Head(parts))
  ELSE firstInlineData(Tail(parts))

pngDataUrl(data) == <<"data:image/png;base64", ",">> \o <<data>>

imageReturn(response, failure) ==
  LET p == firstInlineData(responseParts(response))
  IN  IF p = Null THEN Throw(Error(<<failure>>))
      ELSE Ok(pngDataUrl(p[1].inlineData.data))

generateImageReturn(response) == imageReturn(response, "No image data returned from model")

editImageReturn(response) == imageReturn(response, "No edited image data returned")

operationDone(op) == "done" \in DOMAIN op /\ op.done

\* operation.response?.generatedVideos?.[0]?.video?.uri
downloadLink(op) ==
  IF "response" \notin DOMAIN op THEN Null
  ELSE IF "generatedVideos" \notin DOMAIN op.response THEN Null
  ELSE IF Len(op.response.generatedVideos) = 0 THEN Null
  ELSE LET g == op.response.generatedVideos[1]
       IN  IF "video" \notin DOMAIN g THEN Null
           ELSE IF "uri" \notin DOMAIN g.video THEN Null
           ELSE Some(g.video.uri)

createObjectURL(blob) == <<"blob:", blob>>

\* ------------------------------------------------------------------ state
VARIABLES
  activeTool, loading, loadingMessage, error, assets,   \* App.tsx 7-11
  prompt, size, aspectRatio,                            \* App.tsx 14-16
  baseImage, colorImage, animateImage,                  \* App.tsx 19-23
  runs,      \* the invocations of runGeneration / runEditing / runAnimation in flight
  started,   \* how many invocations have passed validation
  succeeded, \* how many invocations have returned from their service call with a URL
  svc        \* the last call of a GeminiService method: arguments, request, answer, result

vars == << activeTool, loading, loadingMessage, error, assets, prompt, size, aspectRatio,
           baseImage, colorImage, animateImage, runs, started, succeeded, svc >>

\* The form. size and aspectRatio reach nothing but the arguments of the service
\* methods: ServiceSpec draws them, and Spec leaves them as the component starts.
form == << prompt, size, aspectRatio, baseImage, colorImage, animateImage >>

\* An invocation in flight is a closure with no identity of its own: runs is the bag
\* of them. waits, queries and notDone count, inside animateImage's loop, the timers
\* set, the status queries sent and the times the operation was seen not done; delay
\* is the delay of the timer the run waits for.
NewRun(h) ==
  [handler |-> h, pc |-> "hasSelectedApiKey",
   waits |-> 0, queries |-> 0, notDone |-> 0, delay |-> 0]

InFlight == BagToSet(runs)

Init ==
  /\ activeTool = "GENERATE"
  /\ loading = FALSE
  /\ loadingMessage = ""
  /\ error = Null
  /\ assets = <<>>
  /\ prompt = ""
  /\ size = "1K"
  /\ aspectRatio = "1:1"
  /\ baseImage = Null
  /\ colorImage = Null
  /\ animateImage = Null
  /\ runs = EmptyBag
  /\ started = 0
  /\ succeeded = 0
  /\ svc = [fn |-> "none"]

\* ------------------------------------------------------------ user input
SetActiveTool(t) ==
  /\ t # activeTool
  /\ activeTool' = t
  /\ UNCHANGED << loading, loadingMessage, error, assets, form, runs, started, succeeded, svc >>

SetPrompt(p) ==
  /\ activeTool \in {"GENERATE", "EDIT", "ANIMATE"}
  /\ p # prompt
  /\ prompt' = p
  /\ UNCHANGED << activeTool, loading, loadingMessage, error, assets, size, aspectRatio,
                  baseImage, colorImage, animateImage, runs, started, succeeded, svc >>

\* handleFileUpload, from the uploader of the tool shown: reader.onloadend hands
\* reader.result, the file as a data URL, to the setter.
SetBaseImage(v) ==
  /\ activeTool = "EDIT"
  /\ baseImage' = v
  /\ UNCHANGED << activeTool, loading, loadingMessage, error, assets, prompt, size,
                  aspectRatio, colorImage, animateImage, runs, started, succeeded, svc >>

SetColorImage(v) ==
  /\ activeTool = "EDIT"
  /\ colorImage' = v
  /\ UNCHANGED << activeTool, loading, loadingMessage, error, assets, prompt, size,
                  aspectRatio, baseImage, animateImage, runs, started, succeeded, svc >>

SetAnimateImage(v) ==
  /\ activeTool = "ANIMATE"
  /\ animateImage' = v
  /\ UNCHANGED << activeTool, loading, loadingMessage, error, assets, prompt, size,
                  aspectRatio, baseImage, colorImage, runs, started, succeeded, svc >>

FileResults == {Some(i) : i \in Images}

\* ------------------------------------------------------------ App helpers
\* the new asset put behind the earlier ones
newAssets_Appended(prev, url, type) == Append(prev, [url |-> url, type |-> type])

newAssets(prev, url, type) == <<[url |-> url, type |-> type]>> \o prev

addAsset(url, type) ==
  /\ assets' = newAssets(assets, url, type)
  /\ activeTool' = "HISTORY"

fallback(h) ==
  CASE h = "runGeneration" -> <<"Generation failed">>
    [] h = "runEditing" -> <<"Editing failed">>
    [] h = "runAnimation" -> <<"Animation failed">>

message(h) ==
  CASE h = "runGeneration" -> "Synthesizing your imagination..."
    [] h = "runEditing" -> "Blending visuals and styles..."
    [] h = "runAnimation" -> "Breathing life into your pixels (this may take a minute)..."

\* the catch block showing its own text whatever the failure said
errorText_AlwaysFallback(e, h) == fallback(h)

\* err.message || fallback
errorText(e, h) ==
  IF "message" \notin DOMAIN e THEN fallback(h)
  ELSE IF e.message = <<>> THEN fallback(h)
  ELSE e.message

\* err.message.includes("Requested entity was not found"), which throws a TypeError
\* when err.message is undefined
promptsForKey(e) == "message" \in DOMAIN e /\ includes(e.message, NotFound)

\* runs once run has gone on to be new
Moves(run, new) == (runs (-) SetToBag({run})) (+) SetToBag({new})

\* runs once run has returned
Returns(run) == runs (-) SetToBag({run})

await(run, what) == Moves(run, [run EXCEPT !.pc = what])

\* the same once the poll loop is behind: its counts are kept no longer
awaitAfterLoop(run, what) == Moves(run, [NewRun(run.handler) EXCEPT !.pc = what])

\* the statements of a handler's "try" entered with a valid form, up to the await
\* of checkApiKey's hasSelectedApiKey
start(h) ==
  /\ started < MaxRuns
  /\ loading' = TRUE
  /\ loadingMessage' = message(h)
  /\ error' = Null
  /\ runs' = runs (+) SetToBag({NewRun(h)})
  /\ started' = started + 1
  /\ UNCHANGED << activeTool, assets, form, succeeded, svc >>

\* a validation failure that also takes the loading overlay down
invalid_StopsLoading(text) ==
  /\ error' = Some(<<text>>)
  /\ loading' = FALSE
  /\ UNCHANGED << activeTool, loadingMessage, assets, form, runs, started, succeeded, svc >>

invalid(text) ==
  /\ error' = Some(<<text>>)
  /\ UNCHANGED << activeTool, loading, loadingMessage, assets, form, runs, started,
                  succeeded, svc >>

\* finally { setLoading(false) }, and the handler's promise settles
finish(run) ==
  /\ loading' = FALSE
  /\ runs' = Returns(run)

\* the call of the service method after checkApiKey has returned
callService(run) ==
  IF run.handler = "runAnimation" THEN await(run, "generateVideos")
  ELSE await(run, "generateContent")

\* catch (err) { setError(...); if (err.message.includes(...)) await openSelectKey() } finally
catch(run, e) ==
  /\ error' = Some(errorText(e, run.handler))
  /\ IF promptsForKey(e)
     THEN /\ runs' = awaitAfterLoop(run, "openSelectKeyCatch")
          /\ UNCHANGED loading
     ELSE finish(run)
  /\ UNCHANGED << activeTool, loadingMessage, assets, form, started, succeeded, svc >>

succeed(run, url, type) ==
  /\ addAsset(url, type)
  /\ finish(run)
  /\ succeeded' = succeeded + 1
  /\ UNCHANGED << loadingMessage, error, form, started, svc >>

\* --------------------------------------------------------------- handlers
\* A handler is invoked from the button of the tool shown.
runGeneration ==
  /\ activeTool = "GENERATE"
  /\ IF prompt = "" THEN invalid("Please enter a prompt") ELSE start("runGeneration")

runEditing ==
  /\ activeTool = "EDIT"
  /\ IF baseImage = Null \/ colorImage = Null THEN invalid("Please upload both images")
     ELSE start("runEditing")

runAnimation ==
  /\ activeTool = "ANIMATE"
  /\ IF animateImage = Null THEN invalid("Please upload an image to animate")
     ELSE start("runAnimation")

\* ------------------------------------------------------------- environment
\* What the promise a run awaits can settle to.
Thrown == {Throw(e) : e \in SdkErrors}

KeyOutcomes == {Ok(TRUE), Ok(FALSE), Throw(Error(<<"aistudio">>))}

SelectOutcomes == {Ok("undefined"), Throw(Error(<<"aistudio">>))}

GenerateImageOutcomes == {generateImageReturn(resp) : resp \in Responses} \cup Thrown

EditImageOutcomes == {editImageReturn(resp) : resp \in Responses} \cup Thrown

PendingOutcomes == {Ok(op) : op \in Operations} \cup Thrown

FinalOutcomes == {Ok(op) : op \in DoneOperations} \cup Thrown

FetchOutcomes == {Ok("videoResponse")} \cup Thrown

BlobOutcomes == {Ok(b) : b \in Blobs} \cup Thrown

Outcomes(run) ==
  LET pc == run.pc
  IN  CASE pc = "hasSelectedApiKey" -> KeyOutcomes
        [] pc \in {"openSelectKey", "openSelectKeyCatch"} -> SelectOutcomes
        [] pc = "generateContent" ->
             IF run.handler = "runGeneration" THEN GenerateImageOutcomes
             ELSE EditImageOutcomes
        [] pc \in {"generateVideos", "getVideosOperation"} ->
             IF run.notDone < MaxPolls THEN PendingOutcomes ELSE FinalOutcomes
        [] pc = "setTimeout" -> {Ok(run.delay)}
        [] pc = "fetch" -> FetchOutcomes
        [] pc = "blob" -> BlobOutcomes

\* ------------------------------------------------------------ continuations
Settles(run, what, res) == run \in InFlight /\ run.pc = what /\ res \in Outcomes(run)

\* a checkApiKey without its try/catch: a failing key query fails the run
AfterHasSelectedApiKey_Rethrows(run, res) ==
  /\ Settles(run, "hasSelectedApiKey", res)
  /\ IF ~res.ok THEN catch(run, res.value)
     ELSE /\ runs' = IF res.value = FALSE THEN await(run, "openSelectKey")
                     ELSE callService(run)
          /\ UNCHANGED << activeTool, loading, loadingMessage, error, assets, form, started,
                          succeeded, svc >>

\* checkApiKey after hasSelectedApiKey: a missing key opens the selection,
\* a failure is caught and the check returns false; the caller ignores the result.
AfterHasSelectedApiKey(run, res) ==
  /\ Settles(run, "hasSelectedApiKey", res)
  /\ IF res.ok /\ res.value = FALSE
     THEN runs' = await(run, "openSelectKey")
     ELSE runs' = callService(run)
  /\ UNCHANGED << activeTool, loading, loadingMessage, error, assets, form, started,
                  succeeded, svc >>

AfterOpenSelectKey(run, res) ==
  /\ Settles(run, "openSelectKey", res)
  /\ runs' = callService(run)
  /\ UNCHANGED << activeTool, loading, loadingMessage, error, assets, form, started,
                  succeeded, svc >>

\* runGeneration / runEditing after the service method has settled
AfterGenerateContent(run, res) ==
  /\ Settles(run, "generateContent", res)
  /\ IF res.ok THEN succeed(run, res.value, "image") ELSE catch(run, res.value)

\* a poll loop that waits one second only
waiting_Short(run) ==
  [run EXCEPT !.pc = "setTimeout", !.notDone = @ + 1, !.waits = @ + 1, !.delay = 1000]

\* the timer of the poll loop set: the operation was seen not done
waiting(run) ==
  [run EXCEPT !.pc = "setTimeout", !.notDone = @ + 1, !.waits = @ + 1,
              !.delay = PollIntervalMs]

\* the loop left on done with the download attempted whatever the response holds
afterOperation_IgnoresUri(run, op) ==
  /\ runs' = IF ~operationDone(op) THEN Moves(run, waiting(run))
             ELSE awaitAfterLoop(run, "fetch")
  /\ UNCHANGED << activeTool, loading, loadingMessage, error, assets, form, started,
                  succeeded, svc >>

\* animateImage: while (!operation.done) { wait; query }, then the download link
afterOperation(run, op) ==
  IF ~operationDone(op)
  THEN /\ runs' = Moves(run, waiting(run))
       /\ UNCHANGED << activeTool, loading, loadingMessage, error, assets, form, started,
                       succeeded, svc >>
  ELSE IF downloadLink(op) = Null
  THEN catch(run, Error(<<"Video generation failed">>))
  ELSE /\ runs' = awaitAfterLoop(run, "fetch")
       /\ UNCHANGED << activeTool, loading, loadingMessage, error, assets, form, started,
                       succeeded, svc >>

AfterGenerateVideos(run, res) ==
  /\ Settles(run, "generateVideos", res)
  /\ IF res.ok THEN afterOperation(run, res.value) ELSE catch(run, res.value)

\* the timer has fired: the status query is sent
querying(run) == [run EXCEPT !.pc = "getVideosOperation", !.queries = @ + 1, !.delay = 0]

AfterSetTimeout(run, res) ==
  /\ Settles(run, "setTimeout", res)
  /\ runs' = Moves(run, querying(run))
  /\ UNCHANGED << activeTool, loading, loadingMessage, error, assets, form, started,
                  succeeded, svc >>

AfterGetVideosOperation(run, res) ==
  /\ Settles(run, "getVideosOperation", res)
  /\ IF res.ok THEN afterOperation(run, res.value) ELSE catch(run, res.value)

AfterFetch(run, res) ==
  /\ Settles(run, "fetch", res)
  /\ IF res.ok
     THEN /\ runs' = await(run, "blob")
          /\ UNCHANGED << activeTool, loading, loadingMessage, error, assets, form, started,
                          succeeded, svc >>
     ELSE catch(run, res.value)

AfterBlob(run, res) ==
  /\ Settles(run, "blob", res)
  /\ IF res.ok THEN succeed(run, createObjectURL(res.value), "video")
     ELSE catch(run, res.value)

\* the catch block after its openSelectKey: whether it resolved or threw, finally runs
AfterOpenSelectKeyCatch(run, res) ==
  /\ Settles(run, "openSelectKeyCatch", res)
  /\ finish(run)
  /\ UNCHANGED << activeTool, loadingMessage, error, assets, form, started, succeeded, svc >>

\* ------------------------------------------------------------ specification
Next ==
  \/ \E t \in ToolType : SetActiveTool(t)
  \/ \E p \in Prompts : SetPrompt(p)
  \/ \E v \in FileResults : SetBaseImage(v)
  \/ \E v \in FileResults : SetColorImage(v)
  \/ \E v \in FileResults : SetAnimateImage(v)
  \/ runGeneration
  \/ runEditing
  \/ runAnimation
  \/ \E run \in InFlight : \E res \in Outcomes(run) : AfterHasSelectedApiKey(run, res)
  \/ \E run \in InFlight : \E res \in Outcomes(run) : AfterOpenSelectKey(run, res)
  \/ \E run \in InFlight : \E res \in Outcomes(run) : AfterGenerateContent(run, res)
  \/ \E run \in InFlight : \E res \in Outcomes(run) : AfterGenerateVideos(run, res)
  \/ \E run \in InFlight : \E res \in Outcomes(run) : AfterSetTimeout(run, res)
  \/ \E run \in InFlight : \E res \in Outcomes(run) : AfterGetVideosOperation(run, res)
  \/ \E run \in InFlight : \E res \in Outcomes(run) : AfterFetch(run, res)
  \/ \E run \in InFlight : \E res \in Outcomes(run) : AfterBlob(run, res)
  \/ \E run \in InFlight : \E res \in Outcomes(run) : AfterOpenSelectKeyCatch(run, res)

Spec == Init /\ [][Next]_vars

\* a continuation of some run in flight
RunStep ==
  \E run \in InFlight : \E res \in Outcomes(run) :
    \/ AfterHasSelectedApiKey(run, res) \/ AfterOpenSelectKey(run, res)
    \/ AfterGenerateContent(run, res) \/ AfterGenerateVideos(run, res)
    \/ AfterSetTimeout(run, res) \/ AfterGetVideosOperation(run, res)
    \/ AfterFetch(run, res) \/ AfterBlob(run, res) \/ AfterOpenSelectKeyCatch(run, res)

\* Every awaited promise settles and the event loop then runs its continuation.
FairSpec == Spec /\ WF_vars(RunStep)

\* --------------------------------------------- the service methods alone
\* The form as the user can have left it, and one service method applied to it.
ServiceInit ==
  /\ activeTool \in {"GENERATE", "EDIT", "ANIMATE"}
  /\ loading = FALSE
  /\ loadingMessage = ""
  /\ error = Null
  /\ assets = <<>>
  /\ prompt \in Prompts
  /\ size \in ImageSize
  /\ aspectRatio \in AspectRatio
  /\ baseImage \in FileResults
  /\ colorImage \in FileResults
  /\ animateImage \in FileResults
  /\ runs = EmptyBag
  /\ started = 0
  /\ succeeded = 0
  /\ svc = [fn |-> "none"]

ServiceGenerateImage(response) ==
  /\ activeTool = "GENERATE" /\ prompt # ""
  /\ svc' = [ fn |-> "generateImage",
              args |-> [prompt |-> prompt, size |-> size, aspectRatio |-> aspectRatio],
              request |-> generateImageRequest(prompt, size, aspectRatio),
              response |-> response,
              result |-> generateImageReturn(response) ]
  /\ UNCHANGED << activeTool, loading, loadingMessage, error, assets, form, runs, started,
                  succeeded >>

ServiceEditImage(response) ==
  /\ activeTool = "EDIT" /\ baseImage # Null /\ colorImage # Null
  /\ svc' = [ fn |-> "editImage",
              args |-> [base |-> baseImage[1], color |-> colorImage[1], prompt |-> prompt],
              request |-> editImageRequest(baseImage[1], colorImage[1], prompt),
              response |-> response,
              result |-> editImageReturn(response) ]
  /\ UNCHANGED << activeTool, loading, loadingMessage, error, assets, form, runs, started,
                  succeeded >>

\* animateImage up to its generateVideos request
ServiceAnimateImage ==
  /\ activeTool = "ANIMATE" /\ animateImage # Null
  /\ svc' = [ fn |-> "animateImage",
              args |-> [image |-> animateImage[1], prompt |-> prompt,
                        aspectRatio |-> aspectRatio],
              request |-> generateVideosRequest(animateImage[1], prompt, aspectRatio) ]
  /\ UNCHANGED << activeTool, loading, loadingMessage, error, assets, form, runs, started,
                  succeeded >>

ServiceNext ==
  \/ \E response \in Responses : ServiceGenerateImage(response)
  \/ \E response \in Responses : ServiceEditImage(response)
  \/ ServiceAnimateImage

ServiceSpec == ServiceInit /\ [][ServiceNext]_vars

\* ================================================================ claims
\* run is in flight and takes the step
Stepped(run) == run \in InFlight /\ CopiesIn(run, runs') < CopiesIn(run, runs)

\* the step is the return of run's handler
Returned(run) == runs' = Returns(run)

\* the step leaves run at another await
Continues(run) == \E new \in BagToSet(runs') : runs' = Moves(run, new)

Then(run) == CHOOSE new \in BagToSet(runs') : runs' = Moves(run, new)

GoesTo(run, what) == Continues(run) /\ Then(run).pc = what

OperationStep(run, res) ==
  AfterGenerateVideos(run, res) \/ AfterGetVideosOperation(run, res)

SuccessStep(run, res) ==
  res.ok /\ (AfterGenerateContent(run, res) \/ AfterBlob(run, res))

InLoop(run) == run.pc \in {"setTimeout", "getVideosOperation"}

C1_Step ==
  \A run \in InFlight : Stepped(run) =>
    /\ \A res \in Outcomes(run) :
         (res.ok /\ OperationStep(run, res)) =>
           /\ res.value \in NotDoneOperations => GoesTo(run, "setTimeout")
           /\ GoesTo(run, "fetch") <=> res.value \in OperationsWithUri
           /\ res.value \in OperationsWithoutUri => Returned(run) /\ assets' = assets
    /\ run.pc = "setTimeout" => GoesTo(run, "getVideosOperation")
    /\ GoesTo(run, "fetch") => run.pc \in {"generateVideos", "getVideosOperation"}
    /\ GoesTo(run, "blob") => run.pc = "fetch"
    /\ (run.handler = "runAnimation" /\ assets' # assets) => run.pc = "blob"

C2_Counts ==
  \A x \in InFlight :
    /\ x.pc = "generateVideos" => x.waits = 0 /\ x.queries = 0 /\ x.notDone = 0
    /\ x.pc = "setTimeout" =>
         x.waits = x.notDone /\ x.queries + 1 = x.waits /\ x.delay = 10000
    /\ x.pc = "getVideosOperation" =>
         x.queries = x.waits /\ x.waits = x.notDone /\ x.queries >= 1

C2_Step ==
  \A run \in InFlight : Stepped(run) =>
    /\ GoesTo(run, "getVideosOperation") =>
         /\ run.pc = "setTimeout"
         /\ Then(run).queries = run.queries + 1
         /\ Then(run).waits = run.waits
         /\ Then(run).notDone = run.notDone
    /\ \A res \in Outcomes(run) :
         (res.ok /\ OperationStep(run, res)) =>
           IF res.value \in NotDoneOperations
           THEN /\ GoesTo(run, "setTimeout")
                /\ Then(run).notDone = run.notDone + 1
                /\ Then(run).waits = run.waits + 1
                /\ Then(run).queries = run.queries
           ELSE ~GoesTo(run, "setTimeout") /\ ~GoesTo(run, "getVideosOperation")
    /\ GoesTo(run, "setTimeout") => run.pc \in {"generateVideos", "getVideosOperation"}

\* C2: a status query is sent only when a 10000 ms timer has fired, one timer per
\* query, and a timer is set only on seeing the operation not done: inside the loop
\* queries = waits = times seen not done (one query less while the timer runs), and an
\* initial answer that is done leads to no timer and no query.
C2_OneWaitPerQuery == []C2_Counts /\ [][C2_Step]_vars

C2_Witness ==
  \E run \in InFlight :
    /\ run.pc = "getVideosOperation"
    /\ run.queries = 2 /\ run.waits = 2 /\ run.notDone = 2

\* ---- C3
\* C3: a generateImage request for 2K or 4K names the pro model and carries imageSize,
\* the selected size; one for 1K names the flash model and has no imageSize field;
\* imageSize is there exactly when the model is the pro model.
C3_ModelBySize ==
  svc.fn = "generateImage" =>
    LET sz == svc.args.size
        ic == svc.request.config.imageConfig
        pro == svc.request.model = "gemini-3-pro-image-preview"
    IN  /\ sz \in {"2K", "4K"} => pro /\ "imageSize" \in DOMAIN ic /\ ic.imageSize = sz
        /\ sz = "1K" =>
             svc.request.model = "gemini-2.5-flash-image" /\ "imageSize" \notin DOMAIN ic
        /\ "imageSize" \in DOMAIN ic <=> pro

C3_Witness ==
  /\ svc.fn = "generateImage" /\ svc.args.size = "2K"
  /\ svc.request.model = "gemini-3-pro-image-preview"
  /\ svc.request.config.imageConfig.imageSize = "2K"

\* ---- C4
FirstCandidateParts(response) ==
  IF "candidates" \in DOMAIN response /\ response.candidates # <<>>
  THEN LET c == response.candidates[1]
       IN  IF "content" \in DOMAIN c /\ "parts" \in DOMAIN c.content
           THEN c.content.parts ELSE <<>>
  ELSE <<>>

Carriers(parts) == {i \in 1..Len(parts) : "inlineData" \in DOMAIN parts[i]}

NoData(fn) ==
  IF fn = "generateImage" THEN "No image data returned from model"
  ELSE "No edited image data returned"

\* C4: generateImage and editImage return "data:image/png;base64," followed by the
\* data of the first part, in order, of the first candidate that has inline data;
\* with no candidate, no parts or no such part they throw their "no data" error.
C4_FirstInlinePart ==
  svc.fn \in {"generateImage", "editImage"} =>
    LET parts == FirstCandidateParts(svc.response)
        at == Carriers(parts)
    IN  IF at = {}
        THEN ~svc.result.ok /\ svc.result.value = [message |-> <<NoData(svc.fn)>>]
        ELSE LET first == CHOOSE i \in at : \A j \in at : i <= j
             IN  /\ svc.result.ok
                 /\ svc.result.value =
                      <<"data:image/png;base64", ",", parts[first].inlineData.data>>

C4_Witness ==
  /\ svc.fn = "editImage"
  /\ FirstCandidateParts(svc.response) = <<TextPart, InlinePart("d1")>>
  /\ Len(svc.response.candidates) = 2
  /\ svc.result = Ok(<<"data:image/png;base64", ",", "d1">>)

\* ---- C5
\* C5: a generateImage request carries the selected aspect ratio unchanged; a
\* generateVideos request carries 9:16 when 9:16 is selected and 16:9 for every other
\* selection, hence never anything but 16:9 or 9:16.
C5_AspectRatio ==
  /\ svc.fn = "generateImage" =>
       svc.request.config.imageConfig.aspectRatio = svc.args.aspectRatio
  /\ svc.fn = "animateImage" =>
       /\ svc.request.config.aspectRatio = "9:16" <=> svc.args.aspectRatio = "9:16"
       /\ svc.args.aspectRatio # "9:16" => svc.request.config.aspectRatio = "16:9"
       /\ svc.request.config.aspectRatio \in {"16:9", "9:16"}

C5_Witness ==
  /\ svc.fn = "animateImage" /\ svc.args.aspectRatio = "3:4"
  /\ svc.request.config.aspectRatio = "16:9"

\* ---- C6
Invalid ==
  \/ runGeneration /\ prompt = ""
  \/ runEditing /\ (baseImage = Null \/ colorImage = Null)
  \/ runAnimation /\ animateImage = Null

C6_Step ==
  /\ \A run \in InFlight : Stepped(run) =>
       /\ \A res \in Outcomes(run) :
            /\ (res.ok /\ AfterGenerateContent(run, res)) =>
                 /\ assets' = <<[url |-> res.value, type |-> "image"]>> \o assets
                 /\ activeTool' = "HISTORY"
            /\ (res.ok /\ AfterBlob(run, res)) =>
                 /\ assets' = <<[url |-> <<"blob:", res.value>>, type |-> "video"]>> \o assets
                 /\ activeTool' = "HISTORY"
       /\ (\A res \in Outcomes(run) : ~SuccessStep(run, res)) =>
            assets' = assets /\ activeTool' = activeTool
  /\ (runs' = runs /\ Invalid) => assets' = assets /\ activeTool' = activeTool

\* C6: a run whose service call returns a URL puts one asset with that URL and the
\* handler's type in front of the unchanged earlier history and shows HISTORY; any
\* other step of a run, and a run that fails validation, leaves history and active
\* tool alone; the history is as long as the number of runs that succeeded.
C6_HistoryOfSuccesses == [](Len(assets) = succeeded) /\ [][C6_Step]_vars

C6_Witness ==
  /\ Len(assets) = 2 /\ activeTool = "HISTORY"
  /\ assets[1].type = "video" /\ assets[2].type = "image"

\* ---- C7
\* C7 as written, its second half: as long as an animation is inside its poll loop
\* (the service has not reported done), loading is true.
C7_LoadingWhilePolling ==
  \A run \in InFlight : (run.handler = "runAnimation" /\ InLoop(run)) => loading = TRUE

\* C7, its first half: when every awaited promise settles and the service reports the
\* operation done after at most MaxPolls answers, the runs in flight all finish, and
\* loading is false when the last of them has (holds under FairSpec).
C7_Finishes == (runs # EmptyBag) ~> (runs = EmptyBag /\ loading = FALSE)

\* ---- C8
C8_Step ==
  \A run \in InFlight : Stepped(run) => \A res \in Outcomes(run) :
    (res.ok /\ OperationStep(run, res) /\ res.value \in OperationsWithoutUri) =>
      /\ error' = Some(<<"Video generation failed">>)
      /\ Returned(run)
      /\ assets' = assets
      /\ activeTool' = activeTool

\* C8: on an answer that is done and has no URI of a first generated video, the run
\* ends at once (no fetch is started) with error "Video generation failed", no new
\* asset and the active tool as it was.
C8_NoUriFails == [][C8_Step]_vars

C8_Witness ==
  /\ error = Some(<<"Video generation failed">>)
  /\ assets = <<>> /\ activeTool = "ANIMATE"
  /\ started = 1 /\ runs = EmptyBag

\* ---- C9
C9_Step ==
  /\ (runGeneration /\ prompt = "") =>
       /\ error' = Some(<<"Please enter a prompt">>)
       /\ UNCHANGED << loading, loadingMessage, runs, started, assets, activeTool >>
  /\ (runEditing /\ (baseImage = Null \/ colorImage = Null)) =>
       /\ error' = Some(<<"Please upload both images">>)
       /\ UNCHANGED << loading, loadingMessage, runs, started, assets, activeTool >>
  /\ (runAnimation /\ animateImage = Null) =>
       /\ error' = Some(<<"Please upload an image to animate">>)
       /\ UNCHANGED << loading, loadingMessage, runs, started, assets, activeTool >>

\* C9: a handler invoked with its required input missing sets its validation message
\* and nothing else: loading, the loading message, the runs (no key check or service
\* call is begun), the history and the active tool stay as they are.
C9_InvalidOnlySetsError == [][C9_Step]_vars

C9_Witness ==
  /\ error = Some(<<"Please upload both images">>)
  /\ loading = TRUE
  /\ \E run \in InFlight : run.pc = "generateContent"

\* ---- C10
Failure(run, res) ==
  \/ ~res.ok /\ (AfterGenerateContent(run, res) \/ AfterFetch(run, res) \/ AfterBlob(run, res))
  \/ OperationStep(run, res) /\ (~res.ok \/ res.value \in OperationsWithoutUri)

FailureTexts(run, res) ==
  { fallback(run.handler), <<"Video generation failed">> }
    \cup (IF ~res.ok /\ "message" \in DOMAIN res.value THEN {res.value.message} ELSE {})

C10_Step ==
  /\ started' # started =>
       /\ loading' = TRUE /\ error' = Null
       /\ \E new \in BagToSet(runs') :
            new.pc = "hasSelectedApiKey" /\ runs' = runs (+) SetToBag({new})
  /\ \A run \in InFlight : (Stepped(run) /\ Returned(run)) =>
       /\ loading' = FALSE
       /\ \A res \in Outcomes(run) :
            /\ SuccessStep(run, res) => error' = Null
            /\ Failure(run, res) =>
                 \E t \in FailureTexts(run, res) : t # <<>> /\ error' = Some(t)
            /\ AfterOpenSelectKeyCatch(run, res) =>
                 error' # Null /\ includes(error'[1], NotFound)

\* C10 as written: a valid run sets loading and clears error before its key check;
\* when its handler completes loading is false, and error is null after a success
\* and the failure's message or the fallback text after a failure (also when the
\* catch block's openSelectKey was awaited, whether it resolved or threw).
C10_Original == [][C10_Step]_vars

\* ---- C11
ServiceCall(h) == IF h = "runAnimation" THEN "generateVideos" ELSE "generateContent"

InKeyCheck(run) == run.pc \in {"hasSelectedApiKey", "openSelectKey"}

CallsService(run) ==
  GoesTo(run, "generateContent") \/ GoesTo(run, "generateVideos")

C11_Step ==
  /\ started' # started =>
       \E new \in BagToSet(runs') :
         new.pc = "hasSelectedApiKey" /\ runs' = runs (+) SetToBag({new})
  /\ \A run \in InFlight : Stepped(run) =>
       /\ ~GoesTo(run, "hasSelectedApiKey")
       /\ CallsService(run) => InKeyCheck(run)
       /\ GoesTo(run, "openSelectKey") => run.pc = "hasSelectedApiKey"
       /\ \A res \in Outcomes(run) :
            /\ AfterHasSelectedApiKey(run, res) =>
                 /\ GoesTo(run, "openSelectKey") <=> (res.ok /\ res.value = FALSE)
                 /\ ~GoesTo(run, "openSelectKey") => GoesTo(run, ServiceCall(run.handler))
            /\ AfterOpenSelectKey(run, res) => GoesTo(run, ServiceCall(run.handler))
       /\ InKeyCheck(run) =>
            /\ Continues(run) /\ Then(run).handler = run.handler
            /\ UNCHANGED << error, loading, loadingMessage, assets, activeTool >>

\* C11: a run that passed validation begins at its hasSelectedApiKey query and never
\* queries again; the service method is called only as the step that ends the key
\* check; openSelectKey is awaited in the check exactly when the query answered no key;
\* whether the query or the selection resolves or throws, the run goes on to its
\* handler's service call, with error, loading, history and active tool untouched.
C11_KeyCheckFirst == [][C11_Step]_vars

C11_Witness ==
  \E run \in InFlight : run.handler = "runEditing" /\ run.pc = "openSelectKey"

\* ---- C12
\* C12 as written: loading is true whenever some run that passed validation has not
\* yet completed.
C12_LoadingWhileInFlight == runs # EmptyBag => loading = TRUE

====
